---- MODULE Spec2Model ----
(***************************************************************************)
(* A model of google_breakpad's language.cc (Language subclasses: name     *)
(* composition and demangling, with the Rust legacy-mangling fallback      *)
(* decoder) and of BacktraceHandler::Init (backtrace_handler.cc).          *)
(*                                                                         *)
(* A C++ string is a sequence of one-character strings.  A char* returned  *)
(* by an external demangler is a record [null, str].                       *)
(***************************************************************************)
EXTENDS Integers, Sequences, FiniteSets, TLC

(***************************************************************************)
(* Bounds of the model.                                                    *)
(***************************************************************************)
\* longest captured prefix enumerated character by character
MaxPrefixLen == 5
\* longest scope / leaf name handed to MakeQualifiedName
MaxNameLen == 2
\* threads calling the demangle and compose operations concurrently
NumCallers == 2
\* threads calling BacktraceHandler::Init
NumInitThreads == 2

(***************************************************************************)
(* Strings.                                                                *)
(***************************************************************************)
Range(s) == {s[i] : i \in 1..Len(s)}

SeqsUpTo(S, n) == UNION {[1..k -> S] : k \in 0..n}

LowerLetters ==
  {"a","b","c","d","e","f","g","h","i","j","k","l","m",
   "n","o","p","q","r","s","t","u","v","w","x","y","z"}

UpperLetters ==
  {"A","B","C","D","E","F","G","H","I","J","K","L","M",
   "N","O","P","Q","R","S","T","U","V","W","X","Y","Z"}

Digits == {"0","1","2","3","4","5","6","7","8","9"}

(***************************************************************************)
(* DemangleResult (the enumerators language.cc returns).                   *)
(***************************************************************************)
kDemangleSuccess == "kDemangleSuccess"
kDemangleFailure == "kDemangleFailure"
kDontDemangle    == "kDontDemangle"

(***************************************************************************)
(* Name composition.                                                       *)
(***************************************************************************)
\* mutant: the emptiness test is made on the leaf name instead of the parent
MakeQualifiedNameWithSeparator_TestsName(parent_name, separator, name) ==
  IF name = <<>> THEN parent_name
  ELSE parent_name \o separator \o name

MakeQualifiedNameWithSeparator(parent_name, separator, name) ==
  IF parent_name = <<>> THEN name
  ELSE parent_name \o separator \o name

CPPLanguage_MakeQualifiedName(parent_name, name) ==
  MakeQualifiedNameWithSeparator(parent_name, <<":", ":">>, name)

JavaLanguage_MakeQualifiedName(parent_name, name) ==
  MakeQualifiedNameWithSeparator(parent_name, <<".">>, name)

SwiftLanguage_MakeQualifiedName(parent_name, name) ==
  MakeQualifiedNameWithSeparator(parent_name, <<".">>, name)

\* mutant: Rust composed with the C++ separator
RustLanguage_MakeQualifiedName_Colons(parent_name, name) ==
  MakeQualifiedNameWithSeparator(parent_name, <<":", ":">>, name)

RustLanguage_MakeQualifiedName(parent_name, name) ==
  MakeQualifiedNameWithSeparator(parent_name, <<".">>, name)

AssemblerLanguage_MakeQualifiedName(parent_name, name) == name

\* The five singletons, by the name of the Language constant that points to each.
Languages == {"CPlusPlus", "Java", "Swift", "Rust", "Assembler"}

\* Virtual dispatch of MakeQualifiedName through a Language pointer.
MakeQualifiedName(l, parent_name, name) ==
  CASE l = "CPlusPlus" -> CPPLanguage_MakeQualifiedName(parent_name, name)
    [] l = "Java"      -> JavaLanguage_MakeQualifiedName(parent_name, name)
    [] l = "Swift"     -> SwiftLanguage_MakeQualifiedName(parent_name, name)
    [] l = "Rust"      -> RustLanguage_MakeQualifiedName(parent_name, name)
    [] l = "Assembler" -> AssemblerLanguage_MakeQualifiedName(parent_name, name)

(***************************************************************************)
(* C++, Swift and the inherited DemangleName.  Each returns the outcome    *)
(* and the content of *demangled on return; cxa is what                    *)
(* abi::__cxa_demangle produced: [status, str].                            *)
(***************************************************************************)
CPPLanguage_DemangleName(isAndroid, cxa, demangled) ==
  IF isAndroid
    THEN [result |-> kDontDemangle, demangled |-> <<>>]
    ELSE IF cxa.status = 0
      THEN [result |-> kDemangleSuccess, demangled |-> cxa.str]
      ELSE [result |-> kDemangleFailure, demangled |-> <<>>]

SwiftLanguage_DemangleName(mangledName, demangled) ==
  [result |-> kDemangleSuccess, demangled |-> mangledName]

\* Java and Assembler do not override DemangleName.
Language_DemangleName(mangledName, demangled) ==
  [result |-> kDontDemangle, demangled |-> <<>>]

(***************************************************************************)
(* The Rust fallback decoder.                                              *)
(***************************************************************************)
\* The escape table of rust_replace_dollar: token -> character.
map ==
  (<<"C">> :> ",") @@
  (<<"S","P">> :> "@") @@ (<<"B","P">> :> "*") @@ (<<"R","F">> :> "&") @@
  (<<"L","T">> :> "<") @@ (<<"G","T">> :> ">") @@ (<<"L","P">> :> "(") @@
  (<<"R","P">> :> ")") @@
  (<<"u","2","0">> :> " ") @@ (<<"u","2","2">> :> "\\") @@
  (<<"u","2","7">> :> "'") @@ (<<"u","2","b">> :> "+") @@
  (<<"u","3","b">> :> ";") @@
  (<<"u","5","b">> :> "[") @@ (<<"u","5","d">> :> "]") @@
  (<<"u","7","b">> :> "{") @@ (<<"u","7","d">> :> "}") @@
  (<<"u","7","e">> :> "~")

\* std::find(it, eit, ch): the first position >= it holding ch, or eit.
RECURSIVE find(_, _, _)
find(s, it, ch) ==
  IF it > Len(s) THEN Len(s) + 1
  ELSE IF s[it] = ch THEN it
  ELSE find(s, it + 1, ch)

\* rust_replace_dollar(it, eit, o): it is the caller's iterator, copied; o is the stream.
rust_replace_dollar(s, it, o) ==
  LET eit == Len(s) + 1
      e   == find(s, it, "$")
  IN IF e = eit THEN [ok |-> FALSE, o |-> o]
     ELSE LET l == SubSeq(s, it, e - 1)
          IN IF l \notin DOMAIN map THEN [ok |-> FALSE, o |-> o]
             ELSE [ok |-> TRUE, o |-> Append(o, map[l])]

\* mutant: case '_' falls into the default case and emits the underscore
rust_scan_step_EmitsUnderscore(s, it, o) ==
  LET eit == Len(s) + 1
  IN IF s[it] = "$"
       THEN IF it + 1 = eit THEN [fail |-> TRUE, it |-> it + 1, o |-> o]
            ELSE LET r == rust_replace_dollar(s, it + 1, o)
                 IN IF ~r.ok THEN [fail |-> TRUE, it |-> it + 1, o |-> r.o]
                    ELSE [fail |-> FALSE, it |-> it + 2, o |-> r.o]
       ELSE [fail |-> FALSE, it |-> it + 1, o |-> Append(o, s[it])]

\* One iteration of the while loop of rust_scan_replace: the switch on *it
\* and the advance(it, 1) after it.
rust_scan_step(s, it, o) ==
  LET eit == Len(s) + 1
  IN IF s[it] = "_"
       THEN [fail |-> FALSE, it |-> it + 1, o |-> o]
     ELSE IF s[it] = "$"
       THEN IF it + 1 = eit THEN [fail |-> TRUE, it |-> it + 1, o |-> o]
            ELSE LET r == rust_replace_dollar(s, it + 1, o)
                 IN IF ~r.ok THEN [fail |-> TRUE, it |-> it + 1, o |-> r.o]
                    ELSE [fail |-> FALSE, it |-> it + 2, o |-> r.o]
     ELSE [fail |-> FALSE, it |-> it + 1, o |-> Append(o, s[it])]

RECURSIVE rust_scan_loop(_, _, _)
rust_scan_loop(s, it, o) ==
  IF it = Len(s) + 1 THEN [ok |-> TRUE, o |-> o]
  ELSE LET st == rust_scan_step(s, it, o)
       IN IF st.fail THEN [ok |-> FALSE, o |-> st.o]
          ELSE rust_scan_loop(s, st.it, st.o)

rust_scan_replace(s) == rust_scan_loop(s, 1, <<>>)

\* The character class [a-zA-Z0-9_.:$] of the pattern.
ReClass == LowerLetters \cup UpperLetters \cup Digits \cup {"_", ".", ":", "$"}

\* The character class [a-f0-9] of the pattern.
ReHex == {"a","b","c","d","e","f"} \cup Digits

\* length of "::h" plus the 16 hash digits
ReTailLen == 19

\* mutant: the hash digits are not checked
regex_match_AnyHash(rd) ==
  LET n == Len(rd) - ReTailLen
  IN /\ n >= 1
     /\ \A i \in 1..n : rd[i] \in ReClass
     /\ SubSeq(rd, n + 1, n + 3) = <<":", ":", "h">>

\* regex_match(rd, sm, re) with re = (^[a-zA-Z0-9_.:$]+)::h([a-f0-9]{16})$ :
\* the whole of rd must match, so group 1 is all of rd but its last 19 characters.
regex_match(rd) ==
  LET n == Len(rd) - ReTailLen
  IN /\ n >= 1
     /\ \A i \in 1..n : rd[i] \in ReClass
     /\ SubSeq(rd, n + 1, n + 3) = <<":", ":", "h">>
     /\ \A i \in (n + 4)..Len(rd) : rd[i] \in ReHex

\* sm.str(1) of a match.
sm_str1(rd) == SubSeq(rd, 1, Len(rd) - ReTailLen)

\* mutant: the rustc-demangle branch falls back to the decoder when rust_demangle fails
RustLanguage_DemangleName_FallsBack(hasRustDemangle, rustc, cxa, demangled) ==
  IF hasRustDemangle /\ ~rustc.null
    THEN [result |-> kDemangleSuccess, demangled |-> rustc.str, path |-> "rust_demangle"]
    ELSE IF cxa.status # 0
      THEN [result |-> kDemangleFailure, demangled |-> <<>>, path |-> "fallback"]
    ELSE IF ~regex_match(cxa.str)
      THEN [result |-> kDemangleFailure, demangled |-> <<>>, path |-> "fallback"]
    ELSE LET r == rust_scan_replace(sm_str1(cxa.str))
         IN IF ~r.ok
              THEN [result |-> kDemangleFailure, demangled |-> <<>>, path |-> "fallback"]
              ELSE [result |-> kDemangleSuccess, demangled |-> r.o, path |-> "fallback"]

\* RustLanguage::DemangleName.  rustc is what rust_demangle returned, cxa what
\* abi::__cxa_demangle produced, demangled the content of *demangled on entry.
RustLanguage_DemangleName(hasRustDemangle, rustc, cxa, demangled) ==
  IF hasRustDemangle
    THEN IF rustc.null
      THEN [result |-> kDemangleFailure, demangled |-> demangled, path |-> "rust_demangle"]
      ELSE [result |-> kDemangleSuccess, demangled |-> rustc.str, path |-> "rust_demangle"]
    ELSE IF cxa.status # 0
      THEN [result |-> kDemangleFailure, demangled |-> <<>>, path |-> "fallback"]
    ELSE IF ~regex_match(cxa.str)
      THEN [result |-> kDemangleFailure, demangled |-> <<>>, path |-> "fallback"]
    ELSE LET r == rust_scan_replace(sm_str1(cxa.str))
         IN IF ~r.ok
              THEN [result |-> kDemangleFailure, demangled |-> <<>>, path |-> "fallback"]
              ELSE [result |-> kDemangleSuccess, demangled |-> r.o, path |-> "fallback"]

(***************************************************************************)
(* State.                                                                  *)
(***************************************************************************)
VARIABLES
  \* build configuration: defined(__ANDROID__), defined(HAVE_RUST_DEMANGLE)
  android, haveRustDemangle,
  \* one call on a Language singleton: the member function called, the
  \* singleton, and the position of the call ("call" before, "done" after)
  op, lang, pc,
  \* DemangleName's arguments: the mangled name, and *demangled (prior is its
  \* content on entry)
  mangled, prior, demangled,
  \* what abi::__cxa_demangle and rust_demangle make of the mangled name
  cxa, rustc,
  \* DemangleName's return value and the branch of RustLanguage::DemangleName taken
  result, path,
  \* MakeQualifiedName: a scope chain <<a, b, c>> and the names composed from it
  names, qual,
  \* concurrent callers: the guards of the function-local statics re and map,
  \* and each calling thread's frame
  re_guard, map_guard, caller,
  \* BacktraceHandler: the global ctx_, each thread's Init frame, and the
  \* number of BacktraceHandlerContext objects constructed
  ctx_, init, created

configVars == <<android, haveRustDemangle>>
callVars == <<op, lang, pc, mangled, prior, demangled, cxa, rustc, result, path,
              names, qual>>
callerVars == <<re_guard, map_guard, caller>>
handlerVars == <<ctx_, init, created>>
vars == <<configVars, callVars, callerVars, handlerVars>>

(***************************************************************************)
(* Inputs.                                                                 *)
(***************************************************************************)
NoCxa == [status |-> 0, str |-> <<>>]
NoRustc == [null |-> TRUE, str |-> <<>>]
NoQual == [ab |-> <<>>, ab_c |-> <<>>, bc |-> <<>>, a_bc |-> <<>>]

\* Scope and leaf names; the separator characters occur in them.
NameAlphabet == {"A", "."}
Names == SeqsUpTo(NameAlphabet, MaxNameLen)

\* What *demangled may hold on entry.
PriorContents == {<<>>, <<"x">>}

\* Captured prefixes, character by character: a plain letter, the underscore,
\* the delimiter, a letter that is a token of the table, a character outside
\* the pattern's class.
PrefixAlphabet == {"a", "_", "$", "C", "!"}
Prefixes == SeqsUpTo(PrefixAlphabet, MaxPrefixLen)

HashTail == <<":", ":", "h", "0","1","2","3","4","5","6","7","8","9",
              "a","b","c","d","e","f">>
\* Tails the pattern rejects: an upper-case digit, 15 digits, "::g", no tail.
BadTails ==
  { <<":", ":", "h", "0","1","2","3","4","5","6","7","8","9",
      "a","b","c","d","e","F">>,
    <<":", ":", "h", "0","1","2","3","4","5","6","7","8","9",
      "a","b","c","d","e">>,
    <<":", ":", "g", "0","1","2","3","4","5","6","7","8","9",
      "a","b","c","d","e","f">>,
    <<>> }

\* Tokens: those of the table, and some that are not in it.
Tokens == DOMAIN map \cup {<<"Z","Z">>, <<"r","f">>, <<"u","2","1">>, <<>>}
Around == {<<>>, <<"a">>, <<"_">>}
EscapedPrefixes ==
  {pre \o <<"$">> \o tok \o <<"$">> \o post :
     pre \in Around, tok \in Tokens, post \in Around}

\* Strings the platform demangler hands to the Rust fallback.
Intermediates ==
  {p \o t : p \in Prefixes, t \in {HashTail} \cup BadTails}
  \cup {p \o HashTail : p \in EscapedPrefixes}

CxaFailures == {[status |-> s, str |-> <<>>] : s \in {-1, -2, -3}}

(***************************************************************************)
(* Calls on the singletons, one at a time.                                 *)
(***************************************************************************)
CallerIdle ==
  [pc |-> "idle", op |-> "none", lang |-> "none", cxa |-> NoCxa,
   mangled |-> <<>>, demangled |-> <<>>, result |-> "none",
   it |-> 0, o |-> <<>>, names |-> <<>>, qualified |-> <<>>]

\* std::map<string, string>, as a set of <<key, value>> pairs
NoAttributes == {}
CtxNull == [null |-> TRUE, url |-> "", token |-> "", attributes |-> NoAttributes]
InitIdle ==
  [pc |-> "idle", url |-> "", token |-> "", attributes |-> NoAttributes,
   ret |-> "none", late |-> FALSE]

CallersAtRest ==
  /\ re_guard = "uninit"
  /\ map_guard = "uninit"
  /\ caller = [t \in 1..NumCallers |-> CallerIdle]

HandlerAtRest ==
  /\ ctx_ = CtxNull
  /\ init = [t \in 1..NumInitThreads |-> InitIdle]
  /\ created = 0

InitDemangle ==
  /\ op = "DemangleName"
  /\ names = <<>>
  /\ \/ /\ lang = "CPlusPlus"
        /\ android \in BOOLEAN
        /\ haveRustDemangle \in BOOLEAN
        /\ mangled = <<>>
        /\ cxa \in CxaFailures \cup {[status |-> 0, str |-> n] : n \in Names \ {<<>>}}
        /\ rustc = NoRustc
     \/ /\ lang \in {"Java", "Swift", "Assembler"}
        /\ android \in BOOLEAN
        /\ haveRustDemangle \in BOOLEAN
        /\ mangled \in Names
        /\ cxa = NoCxa
        /\ rustc = NoRustc
     \/ /\ lang = "Rust"
        /\ haveRustDemangle = TRUE
        /\ android \in BOOLEAN
        /\ mangled = <<>>
        /\ cxa = NoCxa
        /\ rustc \in {NoRustc} \cup {[null |-> FALSE, str |-> n] : n \in Names}
     \/ \* the fallback calls abi::__cxa_demangle, which <cxxabi.h> declares:
        \* language.cc includes it only when __ANDROID__ is not defined
        /\ lang = "Rust"
        /\ haveRustDemangle = FALSE
        /\ android = FALSE
        /\ mangled = <<>>
        /\ cxa \in CxaFailures \cup {[status |-> 0, str |-> rd] : rd \in Intermediates}
        /\ rustc = NoRustc

InitCompose ==
  /\ op = "MakeQualifiedName"
  /\ lang \in Languages
  /\ android = FALSE
  /\ haveRustDemangle = FALSE
  /\ names \in [1..3 -> Names]
  /\ mangled = <<>>
  /\ cxa = NoCxa
  /\ rustc = NoRustc

Init ==
  /\ pc = "call"
  /\ prior \in PriorContents
  /\ demangled = prior
  /\ result = "none"
  /\ path = "none"
  /\ qual = NoQual
  /\ CallersAtRest
  /\ HandlerAtRest
  /\ (InitDemangle \/ (InitCompose /\ prior = <<>>))

Return(r) ==
  /\ pc' = "done"
  /\ result' = r.result
  /\ demangled' = r.demangled
  /\ UNCHANGED <<configVars, op, lang, mangled, prior, cxa, rustc, names, qual,
                 callerVars, handlerVars>>

CPPDemangleName ==
  /\ pc = "call" /\ op = "DemangleName" /\ lang = "CPlusPlus"
  /\ Return(CPPLanguage_DemangleName(android, cxa, demangled))
  /\ path' = path

SwiftDemangleName ==
  /\ pc = "call" /\ op = "DemangleName" /\ lang = "Swift"
  /\ Return(SwiftLanguage_DemangleName(mangled, demangled))
  /\ path' = path

InheritedDemangleName ==
  /\ pc = "call" /\ op = "DemangleName" /\ lang \in {"Java", "Assembler"}
  /\ Return(Language_DemangleName(mangled, demangled))
  /\ path' = path

RustDemangleName ==
  /\ pc = "call" /\ op = "DemangleName" /\ lang = "Rust"
  /\ LET r == RustLanguage_DemangleName(haveRustDemangle, rustc, cxa, demangled)
     IN Return(r) /\ path' = r.path

\* A caller walking the scope chain <<a, b, c>>, composing as it goes and at once.
ComposeNames ==
  /\ pc = "call" /\ op = "MakeQualifiedName"
  /\ LET ab == MakeQualifiedName(lang, names[1], names[2])
         bc == MakeQualifiedName(lang, names[2], names[3])
     IN qual' = [ab |-> ab,
                 ab_c |-> MakeQualifiedName(lang, ab, names[3]),
                 bc |-> bc,
                 a_bc |-> MakeQualifiedName(lang, names[1], bc)]
  /\ pc' = "done"
  /\ UNCHANGED <<configVars, op, lang, mangled, prior, demangled, cxa, rustc,
                 result, path, names, callerVars, handlerVars>>

Next ==
  \/ CPPDemangleName
  \/ SwiftDemangleName
  \/ InheritedDemangleName
  \/ RustDemangleName
  \/ ComposeNames

Spec == Init /\ [][Next]_vars

(***************************************************************************)
(* Properties of single calls.                                             *)
(***************************************************************************)
Demangled == pc = "done" /\ op = "DemangleName"
Composed == pc = "done" /\ op = "MakeQualifiedName"

\* The structural pattern of the Rust fallback, as the specification words it:
\* one or more characters of the class, then "::h", then exactly 16 lower-case
\* hexadecimal digits, and nothing else.
LegacyPattern(rd) ==
  \E k \in 1..Len(rd) :
    /\ \A i \in 1..k : rd[i] \in ReClass
    /\ Len(rd) = k + 19
    /\ rd[k + 1] = ":" /\ rd[k + 2] = ":" /\ rd[k + 3] = "h"
    /\ \A i \in (k + 4)..(k + 19) :
         rd[i] \in {"0","1","2","3","4","5","6","7","8","9","a","b","c","d","e","f"}

\* The prefix the fallback decodes: the intermediate without "::h" and the hash.
Captured == SubSeq(cxa.str, 1, Len(cxa.str) - 19)

\* The escape decoding the specification describes: a "$" opens a token that
\* the next "$" closes, the token's character replaces "$token$", scanning
\* resumes after the closing "$"; every other character is emitted unchanged.
RECURSIVE EscapeDecode(_, _, _)
EscapeDecode(s, i, o) ==
  IF i > Len(s) THEN [ok |-> TRUE, o |-> o]
  ELSE IF s[i] # "$" THEN EscapeDecode(s, i + 1, Append(o, s[i]))
  ELSE IF \A j \in (i + 1)..Len(s) : s[j] # "$" THEN [ok |-> FALSE, o |-> o]
  ELSE LET e == CHOOSE j \in (i + 1)..Len(s) :
                  s[j] = "$" /\ \A m \in (i + 1)..(j - 1) : s[m] # "$"
           token == SubSeq(s, i + 1, e - 1)
       IN IF token \notin DOMAIN map THEN [ok |-> FALSE, o |-> o]
          ELSE EscapeDecode(s, e + 1, Append(o, map[token]))

\* s without its occurrences of ch.
Without(s, ch) == SelectSeq(s, LAMBDA x : x # ch)

\* The fallback ran and reached the scan of the captured prefix.
ScanRan ==
  /\ Demangled /\ lang = "Rust" /\ ~haveRustDemangle
  /\ cxa.status = 0 /\ LegacyPattern(cxa.str)

\* C1: whenever DemangleName, of any variant and in any build configuration,
\* returns Failure or Unsupported, the output string is empty on return.
C1_NonSuccessLeavesOutputEmpty ==
  (Demangled /\ result \in {kDemangleFailure, kDontDemangle}) => demangled = <<>>

\* C2: in the Rust fallback, a captured prefix whose "$" all delimit tokens of
\* the escape table decodes with outcome Success, each "$token$" replaced by
\* the token's character (stated for prefixes without underscores).
C2_TableTokensDecode ==
  (/\ ScanRan
   /\ "$" \in Range(Captured) /\ "_" \notin Range(Captured)
   /\ EscapeDecode(Captured, 1, <<>>).ok)
  => /\ result = kDemangleSuccess
     /\ demangled = EscapeDecode(Captured, 1, <<>>).o

\* C3: the Rust fallback is fail-closed: a non-zero demangler status, an
\* intermediate that does not match the pattern, a token that is not in the
\* table or a "$" that is never closed gives Failure and an empty output.
C3_FailClosed ==
  (/\ Demangled /\ lang = "Rust" /\ ~haveRustDemangle
   /\ \/ cxa.status # 0
      \/ ~LegacyPattern(cxa.str)
      \/ ~EscapeDecode(Captured, 1, <<>>).ok)
  => /\ result = kDemangleFailure
     /\ demangled = <<>>

\* C3's case: a well-formed intermediate whose prefix holds a bad escape, with
\* an output string that was not empty on entry.
C3_Witness ==
  /\ ScanRan
  /\ ~EscapeDecode(Captured, 1, <<>>).ok
  /\ prior # <<>>
  /\ result = kDemangleFailure /\ demangled = <<>>

\* C4: in the Rust fallback every character of the captured prefix other than
\* "$" is emitted unchanged: a prefix without "$" decodes to itself,
\* underscores included.
C4_PlainCharactersUnchanged ==
  (ScanRan /\ "$" \notin Range(Captured))
  => /\ result = kDemangleSuccess
     /\ demangled = Captured

\* C5: MakeQualifiedName is associative for every variant and all strings:
\* composing <<a, b>> then c equals composing a with <<b, c>>.
C5_Associative ==
  Composed => qual.ab_c = qual.a_bc

\* C5, amended: MakeQualifiedName(MakeQualifiedName(a, b), c) equals
\* MakeQualifiedName(a, MakeQualifiedName(b, c)) for Assembler always, and for
\* the other variants whenever a is empty or b is not empty.
C5_AssociativeUnlessMiddleEmpty ==
  (Composed /\ (lang = "Assembler" \/ names[1] = <<>> \/ names[2] # <<>>))
  => qual.ab_c = qual.a_bc

\* C5's case: a chain of three non-empty names composed with a separator.
C5_Witness ==
  /\ Composed /\ lang = "CPlusPlus"
  /\ names[1] # <<>> /\ names[2] # <<>> /\ names[3] # <<>>
  /\ qual.ab_c = names[1] \o <<":", ":">> \o names[2] \o <<":", ":">> \o names[3]
  /\ qual.a_bc = qual.ab_c

\* C6: with a dedicated Rust demangler built in, RustLanguage::DemangleName
\* never runs the fallback, and succeeds exactly when the demangler returns a
\* non-empty string, which is then the output; otherwise it fails.
C6_SuccessIffNonEmpty ==
  (Demangled /\ lang = "Rust" /\ haveRustDemangle)
  => /\ path = "rust_demangle"
     /\ result = kDemangleSuccess <=> (~rustc.null /\ rustc.str # <<>>)
     /\ result = kDemangleSuccess => demangled = rustc.str
     /\ result # kDemangleSuccess => result = kDemangleFailure

\* C6, amended: with a dedicated Rust demangler built in,
\* RustLanguage::DemangleName never runs the fallback, and succeeds exactly
\* when the demangler returns a non-null string (the empty string included),
\* which is then the output; it fails exactly when the demangler returns null.
C6_SuccessIffNonNull ==
  (Demangled /\ lang = "Rust" /\ haveRustDemangle)
  => /\ path = "rust_demangle"
     /\ result = kDemangleSuccess <=> ~rustc.null
     /\ result = kDemangleSuccess => demangled = rustc.str
     /\ result # kDemangleSuccess => result = kDemangleFailure

\* C6's case: the dedicated demangler returned an empty string.
C6_Witness ==
  /\ Demangled /\ lang = "Rust" /\ haveRustDemangle
  /\ ~rustc.null /\ rustc.str = <<>>
  /\ result = kDemangleSuccess /\ demangled = <<>>

\* C7: MakeQualifiedName(parent, name) is name when the parent is empty, and
\* parent + separator + name otherwise, the separator being "::" for C++ and
\* "." for Java, Swift and Rust; for Assembler it is name.
C7_ComposeMatchesReference ==
  Composed =>
    qual.ab = IF lang = "Assembler" \/ names[1] = <<>> THEN names[2]
              ELSE IF lang = "CPlusPlus" THEN names[1] \o <<":", ":">> \o names[2]
              ELSE names[1] \o <<".">> \o names[2]

\* C7's case: Rust composing a non-empty parent with a non-empty name.
C7_Witness ==
  /\ Composed /\ lang = "Rust"
  /\ names[1] # <<>> /\ names[2] # <<>>
  /\ qual.ab = names[1] \o <<".">> \o names[2]

\* C9: the scan of the Rust fallback succeeds exactly when the captured prefix
\* holds no "$", and the output is then the prefix without its underscores.
C9_ScanSucceedsIffNoDollar ==
  ScanRan =>
    /\ result = kDemangleSuccess <=> "$" \notin Range(Captured)
    /\ result = kDemangleSuccess => demangled = Without(Captured, "_")

\* C9's case: a prefix with underscores and no "$" decoded.
C9_Witness ==
  /\ ScanRan
  /\ "_" \in Range(Captured) /\ "a" \in Range(Captured)
  /\ result = kDemangleSuccess
  /\ demangled = Without(Captured, "_") /\ demangled # Captured

(***************************************************************************)
(* Concurrent callers of the Language singletons, in the build that has    *)
(* the platform demangler and no rustc-demangle: the only state the calls  *)
(* share is the two function-local statics, re (RustLanguage::DemangleName)*)
(* and map (rust_replace_dollar), each constructed by the first call to    *)
(* reach its declaration.                                                  *)
(***************************************************************************)
Callers == 1..NumCallers

\* The calls a thread may make: each thread has its own arguments and its own
\* output string.
CallMenu ==
  {[CallerIdle EXCEPT !.op = "DemangleName", !.lang = "Rust", !.cxa = c] :
     c \in {[status |-> -2, str |-> <<>>],
            [status |-> 0, str |-> <<"a", "_">> \o HashTail],
            [status |-> 0, str |-> <<"$", "C", "$">> \o HashTail],
            [status |-> 0, str |-> <<"a">>]}}
  \cup {[CallerIdle EXCEPT !.op = "DemangleName", !.lang = "CPlusPlus", !.cxa = c] :
     c \in {[status |-> -2, str |-> <<>>], [status |-> 0, str |-> <<"A">>]}}
  \cup {[CallerIdle EXCEPT !.op = "DemangleName", !.lang = "Swift",
                           !.mangled = <<"A">>]}
  \cup {[CallerIdle EXCEPT !.op = "MakeQualifiedName", !.lang = l,
                           !.names = <<<<"A">>, <<"A">>>>] :
     l \in {"Rust", "Assembler"}}

\* What a read of a static that another thread is still constructing may
\* make of a lookup in map: undefined behaviour.
RacyLookups(f) ==
  {[fail |-> TRUE, it |-> f.it + 1, o |-> f.o]}
  \cup {[fail |-> FALSE, it |-> f.it + 2, o |-> Append(f.o, ch)] : ch \in {",", "?"}}

\* mutant: statics initialised without the guard (-fno-threadsafe-statics)
StaticGuardBlocks_NoGuard(guard) == FALSE

\* Initialisation of a block-scope static: a thread that reaches the
\* declaration while another thread is constructing the object waits.
StaticGuardBlocks(guard) == guard = "constructing"

CallersInit ==
  /\ android = FALSE
  /\ haveRustDemangle = FALSE
  /\ op = "none" /\ lang = "none" /\ pc = "none"
  /\ mangled = <<>> /\ prior = <<>> /\ demangled = <<>>
  /\ cxa = NoCxa /\ rustc = NoRustc
  /\ result = "none" /\ path = "none"
  /\ names = <<>> /\ qual = NoQual
  /\ CallersAtRest
  /\ HandlerAtRest

Frame(t, f) ==
  /\ caller' = [caller EXCEPT ![t] = f]
  /\ UNCHANGED <<configVars, callVars, handlerVars>>

Finish(f, r) == [f EXCEPT !.pc = "done", !.result = r.result, !.demangled = r.demangled]

\* A thread calls a member function of a singleton.
CallerCall(t) ==
  /\ caller[t].pc = "idle"
  /\ \E c \in CallMenu :
       Frame(t, [c EXCEPT !.pc = IF c.op = "DemangleName" /\ c.lang = "Rust"
                                   THEN "re_static" ELSE "body"])
  /\ UNCHANGED <<re_guard, map_guard>>

\* CPPLanguage::DemangleName, SwiftLanguage::DemangleName and MakeQualifiedName
\* read their arguments only.
CallerBody(t) ==
  LET f == caller[t]
  IN /\ f.pc = "body"
     /\ Frame(t,
          IF f.op = "MakeQualifiedName"
            THEN [f EXCEPT !.pc = "done",
                           !.qualified = MakeQualifiedName(f.lang, f.names[1], f.names[2])]
          ELSE IF f.lang = "CPlusPlus"
            THEN Finish(f, CPPLanguage_DemangleName(android, f.cxa, f.demangled))
            ELSE Finish(f, SwiftLanguage_DemangleName(f.mangled, f.demangled)))
     /\ UNCHANGED <<re_guard, map_guard>>

\* RustLanguage::DemangleName reaches the declaration of the static re.
CallerReachRe(t) ==
  LET f == caller[t]
  IN /\ f.pc = "re_static"
     /\ ~StaticGuardBlocks(re_guard)
     /\ re_guard' = IF re_guard = "uninit" THEN "constructing" ELSE re_guard
     /\ Frame(t, [f EXCEPT !.pc = IF re_guard = "uninit" THEN "re_construct"
                                  ELSE "demangle"])
     /\ UNCHANGED map_guard

\* The thread that found re uninitialised finishes constructing it.
CallerConstructRe(t) ==
  LET f == caller[t]
  IN /\ f.pc = "re_construct"
     /\ re_guard' = "done"
     /\ Frame(t, [f EXCEPT !.pc = "demangle"])
     /\ UNCHANGED map_guard

\* demangled->clear(), abi::__cxa_demangle and the test of its status.
CallerDemangle(t) ==
  LET f == caller[t]
  IN /\ f.pc = "demangle"
     /\ Frame(t, IF f.cxa.status # 0
                   THEN Finish(f, [result |-> kDemangleFailure, demangled |-> <<>>])
                   ELSE [f EXCEPT !.pc = "match", !.demangled = <<>>])
     /\ UNCHANGED <<re_guard, map_guard>>

\* regex_match(rd, sm, re): reads re.
CallerMatch(t) ==
  LET f == caller[t]
  IN /\ f.pc = "match"
     /\ \E matched \in IF re_guard = "done" THEN {regex_match(f.cxa.str)} ELSE BOOLEAN :
          Frame(t, IF ~matched
                     THEN Finish(f, [result |-> kDemangleFailure, demangled |-> <<>>])
                     ELSE [f EXCEPT !.pc = "scan", !.it = 1, !.o = <<>>])
     /\ UNCHANGED <<re_guard, map_guard>>

\* One iteration of the loop of rust_scan_replace over sm.str(1), up to the
\* call of rust_replace_dollar; at the end, *demangled = o.str().
CallerScan(t) ==
  LET f == caller[t]
      s == sm_str1(f.cxa.str)
      eit == Len(s) + 1
  IN /\ f.pc = "scan"
     /\ Frame(t,
          IF f.it = eit
            THEN Finish(f, [result |-> kDemangleSuccess, demangled |-> f.o])
          ELSE IF s[f.it] = "$" /\ f.it + 1 # eit
            THEN [f EXCEPT !.pc = "map_static"]
          ELSE LET st == rust_scan_step(s, f.it, f.o)
               IN IF st.fail
                    THEN Finish(f, [result |-> kDemangleFailure, demangled |-> <<>>])
                    ELSE [f EXCEPT !.it = st.it, !.o = st.o])
     /\ UNCHANGED <<re_guard, map_guard>>

\* rust_replace_dollar reaches the declaration of the static map.
CallerReachMap(t) ==
  LET f == caller[t]
  IN /\ f.pc = "map_static"
     /\ ~StaticGuardBlocks(map_guard)
     /\ map_guard' = IF map_guard = "uninit" THEN "constructing" ELSE map_guard
     /\ Frame(t, [f EXCEPT !.pc = IF map_guard = "uninit" THEN "map_construct"
                                  ELSE "replace"])
     /\ UNCHANGED re_guard

\* The thread that found map uninitialised finishes constructing it.
CallerConstructMap(t) ==
  LET f == caller[t]
  IN /\ f.pc = "map_construct"
     /\ map_guard' = "done"
     /\ Frame(t, [f EXCEPT !.pc = "replace"])
     /\ UNCHANGED re_guard

\* The body of rust_replace_dollar (it reads map) and the rest of the iteration.
CallerReplace(t) ==
  LET f == caller[t]
      s == sm_str1(f.cxa.str)
  IN /\ f.pc = "replace"
     /\ \E st \in IF map_guard = "done" THEN {rust_scan_step(s, f.it, f.o)}
                  ELSE RacyLookups(f) :
          Frame(t, IF st.fail
                     THEN Finish(f, [result |-> kDemangleFailure, demangled |-> <<>>])
                     ELSE [f EXCEPT !.pc = "scan", !.it = st.it, !.o = st.o])
     /\ UNCHANGED <<re_guard, map_guard>>

\* The caller takes the result; the thread is free for its next call.
CallerReturn(t) ==
  /\ caller[t].pc = "done"
  /\ Frame(t, CallerIdle)
  /\ UNCHANGED <<re_guard, map_guard>>

CallersNext ==
  \E t \in Callers :
    \/ CallerCall(t)
    \/ CallerBody(t)
    \/ CallerReachRe(t)
    \/ CallerConstructRe(t)
    \/ CallerDemangle(t)
    \/ CallerMatch(t)
    \/ CallerScan(t)
    \/ CallerReachMap(t)
    \/ CallerConstructMap(t)
    \/ CallerReplace(t)
    \/ CallerReturn(t)

SpecCallers == CallersInit /\ [][CallersNext]_vars

\* What the call of frame f returns when it runs alone.
Sequential(f) ==
  IF f.op = "MakeQualifiedName"
    THEN [result |-> "none", demangled |-> <<>>,
          qualified |-> MakeQualifiedName(f.lang, f.names[1], f.names[2])]
  ELSE LET r == CASE f.lang = "Rust" ->
                      RustLanguage_DemangleName(FALSE, NoRustc, f.cxa, <<>>)
                  [] f.lang = "CPlusPlus" ->
                      CPPLanguage_DemangleName(FALSE, f.cxa, <<>>)
                  [] f.lang = "Swift" ->
                      SwiftLanguage_DemangleName(f.mangled, <<>>)
       IN [result |-> r.result, demangled |-> r.demangled, qualified |-> <<>>]

\* C8: every call made concurrently with other calls returns the outcome and
\* the output it returns when it runs alone, whatever the interleaving, the
\* first use of the shared pattern and escape table included.
C8_ConcurrentAsSequential ==
  \A t \in Callers :
    caller[t].pc = "done" =>
      /\ caller[t].result = Sequential(caller[t]).result
      /\ caller[t].demangled = Sequential(caller[t]).demangled
      /\ caller[t].qualified = Sequential(caller[t]).qualified

\* C8's case: a Rust call returned its decoded name while the Rust call of
\* another thread, made over the same shared pattern, is inside
\* rust_replace_dollar, constructing or reading the escape table.
C8_Witness ==
  \E t, u \in Callers :
    /\ t # u
    /\ caller[t].pc = "done" /\ caller[t].lang = "Rust"
    /\ caller[t].result = kDemangleSuccess /\ caller[t].demangled = <<"a">>
    /\ caller[u].lang = "Rust" /\ caller[u].pc \in {"map_construct", "replace"}
    /\ re_guard = "done"

(***************************************************************************)
(* BacktraceHandler::Init called from several threads.  ctx_ is a plain    *)
(* global pointer: the test of ctx_ and the assignment to it are separate  *)
(* steps, and nothing orders one thread's steps with another's.            *)
(***************************************************************************)
InitThreads == 1..NumInitThreads

Urls == {"url1", "url2"}
HandlerTokens == {"token1", "token2"}
AttributeMaps == {NoAttributes, {<<"version", "1">>}}

HandlerInit ==
  /\ android = FALSE
  /\ haveRustDemangle = FALSE
  /\ op = "none" /\ lang = "none" /\ pc = "none"
  /\ mangled = <<>> /\ prior = <<>> /\ demangled = <<>>
  /\ cxa = NoCxa /\ rustc = NoRustc
  /\ result = "none" /\ path = "none"
  /\ names = <<>> /\ qual = NoQual
  /\ CallersAtRest
  /\ HandlerAtRest

\* A thread calls Init(url, token, attributes); late records that a context
\* existed when the call started.
InitCall(t) ==
  /\ init[t].pc = "idle"
  /\ \E u \in Urls, k \in HandlerTokens, a \in AttributeMaps :
       init' = [init EXCEPT ![t] = [pc |-> "test", url |-> u, token |-> k,
                                    attributes |-> a,
                                    ret |-> "none", late |-> ~ctx_.null]]
  /\ UNCHANGED <<ctx_, created, configVars, callVars, callerVars>>

\* if (ctx_ != nullptr) return false;
InitTest(t) ==
  /\ init[t].pc = "test"
  /\ init' = [init EXCEPT ![t] = IF ctx_.null THEN [@ EXCEPT !.pc = "new"]
                                 ELSE [@ EXCEPT !.pc = "done", !.ret = "false"]]
  /\ UNCHANGED <<ctx_, created, configVars, callVars, callerVars>>

\* ctx_ = new BacktraceHandlerContext(url, token, attributes); return true;
InitNew(t) ==
  /\ init[t].pc = "new"
  /\ ctx_' = [null |-> FALSE, url |-> init[t].url, token |-> init[t].token,
              attributes |-> init[t].attributes]
  /\ created' = created + 1
  /\ init' = [init EXCEPT ![t] = [@ EXCEPT !.pc = "done", !.ret = "true"]]
  /\ UNCHANGED <<configVars, callVars, callerVars>>

HandlerNext ==
  \E t \in InitThreads :
    \/ InitCall(t)
    \/ InitTest(t)
    \/ InitNew(t)

SpecHandler == HandlerInit /\ [][HandlerNext]_vars

\* C10: of any set of Init calls, interleaved ones included, at most one
\* returns true and one context is created; a call that starts when a context
\* exists returns false.
C10_OneInitSucceeds ==
  /\ Cardinality({t \in InitThreads : init[t].pc = "done" /\ init[t].ret = "true"}) <= 1
  /\ created <= 1
  /\ \A t \in InitThreads :
       (init[t].pc = "done" /\ init[t].late) => init[t].ret = "false"

====
